---- MODULE Spec2Model ----
(***************************************************************************)
(* repo_search: provider resolution (src/src/config.rs) and the concurrent *)
(* multi-provider search executor (src/src/main.rs).                       *)
(*                                                                         *)
(* Provider names are Rust Strings.  They are modelled as sequences of     *)
(* ASCII codes, so that to_lowercase, eq_ignore_ascii_case, sort() and     *)
(* format!() are computed on characters.  Option<T> is a sequence of       *)
(* length 0 (None) or 1 (Some(x)).                                         *)
(***************************************************************************)
EXTENDS Integers, Sequences, FiniteSets, TLC

VARIABLES
    file,                \* the persisted configuration file, as found on disk
    env,                 \* the process environment (the six variables read)
    args,                \* cli::parse()
    pc,                  \* position of main / Config::load / execute_searches
    config,              \* the Config under construction, then loaded
    main_provider_names, \* main: let provider_names
    resolved_providers,  \* main: let mut resolved_providers
    stderr,              \* lines written by eprintln!
    stdout,              \* what main and print_results wrote to stdout
    exit_code,           \* None while running, Some(status) once ended
    tasks,               \* the JoinSet: one record per spawned unit
    completed,           \* ids of finished units, completion order, not yet joined
    joined,              \* ids of the units join_next has returned, in order
    limit,               \* main: let limit (0 until main computes it)
    all_repos,           \* execute_searches: let mut all_repos
    errors               \* execute_searches: let mut errors

vars == <<file, env, args, pc, config, main_provider_names, resolved_providers,
          stderr, stdout, exit_code, tasks, completed, joined, limit, all_repos,
          errors>>

----------------------------------------------------------------------------
(* Option<T> *)

None == <<>>

Some(x) == <<x>>

IsSome(o) == o # <<>>

Unwrap(o) == o[1]

----------------------------------------------------------------------------
(* Strings as ASCII sequences *)

str_github == <<103, 105, 116, 104, 117, 98>>

str_gitlab == <<103, 105, 116, 108, 97, 98>>

str_bitbucket == <<98, 105, 116, 98, 117, 99, 107, 101, 116>>

str_all == <<97, 108, 108>>

\* "GitHub"
str_GitHub == <<71, 105, 116, 72, 117, 98>>

\* "ALL"
str_ALL == <<65, 76, 76>>

\* "my-custom"
str_my_custom == <<109, 121, 45, 99, 117, 115, 116, 111, 109>>

\* "unknown"
str_unknown == <<117, 110, 107, 110, 111, 119, 110>>

\* char::to_ascii_lowercase / the ASCII part of char::to_lowercase
lower_char(c) == IF c >= 65 /\ c <= 90 THEN c + 32 ELSE c

\* str::to_lowercase on an ASCII string
to_lowercase(s) == [i \in 1..Len(s) |-> lower_char(s[i])]

\* str::eq_ignore_ascii_case
eq_ignore_ascii_case(a, b) == to_lowercase(a) = to_lowercase(b)

\* Ord for str: bytewise lexicographic, a proper prefix sorts first
RECURSIVE str_lt(_, _)
str_lt(a, b) ==
    IF b = <<>> THEN FALSE
    ELSE IF a = <<>> THEN TRUE
    ELSE IF a[1] # b[1] THEN a[1] < b[1]
    ELSE str_lt(Tail(a), Tail(b))

\* str::contains
Contains(s, sub) ==
    \E i \in 0..(Len(s) - Len(sub)) : SubSeq(s, i + 1, i + Len(sub)) = sub

----------------------------------------------------------------------------
(* ProviderType *)

ProviderType == {"Github", "Gitlab", "Bitbucket"}

default_url(provider_type) ==
    CASE provider_type = "Github" -> "https://api.github.com"
      [] provider_type = "Gitlab" -> "https://gitlab.com"
      [] provider_type = "Bitbucket" -> "https://api.bitbucket.org/2.0"

from_name(name) ==
    LET l == to_lowercase(name)
    IN  IF l = str_github THEN Some("Github")
        ELSE IF l = str_gitlab THEN Some("Gitlab")
        ELSE IF l = str_bitbucket THEN Some("Bitbucket")
        ELSE None

----------------------------------------------------------------------------
(* Config and its parts.  providers is a HashMap: a function whose DOMAIN  *)
(* is the set of keys.                                                     *)

EmptyMap == [k \in {} |-> None]

DefaultsConfig_default == [providers |-> None, limit |-> None]

Config_default ==
    [defaults |-> DefaultsConfig_default,
     providers |-> EmptyMap,
     github |-> None,
     gitlab |-> None,
     bitbucket |-> None]

ProviderEntry(provider_type, token, url) ==
    [provider_type |-> provider_type, token |-> token, url |-> url]

\* HashMap::insert
MapPut(m, k, v) == [x \in (DOMAIN m) \cup {k} |-> IF x = k THEN v ELSE m[x]]

\* or_insert overwriting an entry that is already there
or_insert_overwriting(m, k, v) == MapPut(m, k, v)

\* HashMap::entry(k).or_insert(v): the map after the call
or_insert(m, k, v) == IF k \in DOMAIN m THEN m ELSE MapPut(m, k, v)

----------------------------------------------------------------------------
(* Result<T> *)

Ok(v) == [ok |-> TRUE, val |-> v]

Err(e) == [ok |-> FALSE, val |-> e]

\* Result::unwrap_or_default for Result<Config>
unwrap_or_default(r) == IF r.ok THEN r.val ELSE Config_default

----------------------------------------------------------------------------
(* Config::load and its three stages *)

\* Config::load_from_file.  f.state is what the path holds: "absent",
\* "unreadable" (read_to_string fails), "malformed" (toml::from_str fails)
\* or "ok" (f.content is the parsed structure).
load_from_file(f) ==
    IF f.state = "absent" THEN Ok(Config_default)
    ELSE IF f.state = "unreadable" THEN Err("io error")
    ELSE IF f.state = "malformed" THEN Err("toml parse error")
    ELSE Ok(f.content)

\* Config::load, first statement: what the file contributes
load_base(f) == unwrap_or_default(load_from_file(f))

\* one `if let Ok(token) = env::var(..)` block of apply_env_overrides
env_token(providers, e, var, key, provider_type) ==
    IF IsSome(e[var])
    THEN LET m == or_insert(providers, key, ProviderEntry(Some(provider_type), None, None))
         IN  [m EXCEPT ![key].token = Some(Unwrap(e[var]))]
    ELSE providers

\* one `if let Ok(url) = env::var(..)` block of apply_env_overrides
env_url(providers, e, var, key, provider_type) ==
    IF IsSome(e[var])
    THEN LET m == or_insert(providers, key, ProviderEntry(Some(provider_type), None, None))
         IN  [m EXCEPT ![key].url = Some(Unwrap(e[var]))]
    ELSE providers

apply_env_overrides(c, e) ==
    LET p1 == env_token(c.providers, e, "GITHUB_TOKEN", str_github, "Github")
        p2 == env_url(p1, e, "GITHUB_URL", str_github, "Github")
        p3 == env_token(p2, e, "GITLAB_TOKEN", str_gitlab, "Gitlab")
        p4 == env_url(p3, e, "GITLAB_URL", str_gitlab, "Gitlab")
        p5 == env_token(p4, e, "BITBUCKET_TOKEN", str_bitbucket, "Bitbucket")
        p6 == env_url(p5, e, "BITBUCKET_URL", str_bitbucket, "Bitbucket")
    IN  [c EXCEPT !.providers = p6]

\* one `if let Some(legacy) = self.<kind>.take()` block of
\* migrate_legacy_providers: the providers map after it
migrate_one(providers, legacy, key, provider_type) ==
    IF IsSome(legacy)
    THEN or_insert(providers, key,
                   ProviderEntry(Some(provider_type), Unwrap(legacy).token, Unwrap(legacy).url))
    ELSE providers

migrate_legacy_providers(c) ==
    LET p1 == migrate_one(c.providers, c.github, str_github, "Github")
        p2 == migrate_one(p1, c.gitlab, str_gitlab, "Gitlab")
        p3 == migrate_one(p2, c.bitbucket, str_bitbucket, "Bitbucket")
    IN  [c EXCEPT !.providers = p3, !.github = None, !.gitlab = None, !.bitbucket = None]

----------------------------------------------------------------------------
(* Inputs: the configuration file, the environment and the command line.   *)
(* A "setting" is one providers.<name> entry, one defaults field, one      *)
(* legacy section, one environment variable, one -p selector or one other  *)
(* flag; a run is given at most MaxInputs of them.                         *)

\* inputs that differ from their default: file entries, defaults fields,
\* legacy sections, environment variables, -p selectors and other flags
MaxInputs == 2

FileNames == {str_github, str_gitlab, str_bitbucket, str_GitHub, str_my_custom}

OptTypes == {None} \cup {Some(t) : t \in ProviderType}

FileTokens == {None, Some("tok-file")}

FileUrls == {None, Some(""), Some("https://file.example")}

LegacyValues ==
    [token : {None, Some("tok-legacy")},
     url : {None, Some(""), Some("https://legacy.example")}]

EnvVars ==
    {"GITHUB_TOKEN", "GITHUB_URL", "GITLAB_TOKEN", "GITLAB_URL",
     "BITBUCKET_TOKEN", "BITBUCKET_URL"}

TokenVars == {"GITHUB_TOKEN", "GITLAB_TOKEN", "BITBUCKET_TOKEN"}

EnvValues(var) ==
    IF var \in TokenVars THEN {"tok-env"} ELSE {"", "https://env.example"}

LegacyKinds == {"github", "gitlab", "bitbucket"}

EntryValues ==
    {ProviderEntry(t, k, u) : t \in OptTypes, k \in FileTokens, u \in FileUrls}

OptionSize(o) == IF IsSome(o) THEN 1 ELSE 0

\* the legacy sections of a file: how many are present
LegacySize(l) ==
    OptionSize(l["github"]) + OptionSize(l["gitlab"]) + OptionSize(l["bitbucket"])

LegacySections == [LegacyKinds -> {None} \cup {Some(v) : v \in LegacyValues}]

DefaultsValues ==
    {[providers |-> p, limit |-> l] :
        p \in {None, Some(<<str_gitlab, str_my_custom>>), Some(<<str_GitHub, str_GitHub>>)},
        l \in {None, Some(20)}}

DefaultsSize(d) == OptionSize(d.providers) + OptionSize(d.limit)

\* how many of the six variables are set
EnvSize(e) ==
    OptionSize(e["GITHUB_TOKEN"]) + OptionSize(e["GITHUB_URL"])
    + OptionSize(e["GITLAB_TOKEN"]) + OptionSize(e["GITLAB_URL"])
    + OptionSize(e["BITBUCKET_TOKEN"]) + OptionSize(e["BITBUCKET_URL"])

Environments ==
    {e \in [EnvVars -> {None, Some("tok-env"), Some(""), Some("https://env.example")}] :
        \A v \in EnvVars : IsSome(e[v]) => Unwrap(e[v]) \in EnvValues(v)}

NoEnv == [v \in EnvVars |-> None]

\* what the path can hold when the file carries no parsed content
NoContentStates == {"absent", "unreadable", "malformed"}

\* the file, with keys among names, and the environment hold at most n
\* settings in total
IsLoadInput(f, e, names, n) ==
    \E x \in {y \in Environments : EnvSize(y) <= n} :
        /\ e = x
        /\ \/ \E s \in NoContentStates : f = [state |-> s, content |-> Config_default]
           \/ \E l \in {y \in LegacySections : LegacySize(y) <= n - EnvSize(x)} :
              \E d \in {y \in DefaultsValues :
                            DefaultsSize(y) <= n - EnvSize(x) - LegacySize(l)} :
              \E D \in {X \in SUBSET names :
                            Cardinality(X) <= n - EnvSize(x) - LegacySize(l) - DefaultsSize(d)} :
              \E m \in [D -> EntryValues] :
                  f = [state |-> "ok",
                       content |-> [defaults |-> d, providers |-> m,
                                    github |-> l["github"], gitlab |-> l["gitlab"],
                                    bitbucket |-> l["bitbucket"]]]

----------------------------------------------------------------------------
(* Queries on a loaded Config *)

Range(s) == {s[i] : i \in DOMAIN s}

\* Vec<String>::sort: x goes before the first element strictly greater
RECURSIVE insert_sorted(_, _)
insert_sorted(sorted, x) ==
    IF sorted = <<>> THEN <<x>>
    ELSE IF str_lt(x, sorted[1]) THEN <<x>> \o sorted
    ELSE <<sorted[1]>> \o insert_sorted(Tail(sorted), x)

\* sort leaving the vector as it is
sort_skipped(v) == v

RECURSIVE sort(_)
sort(v) ==
    IF v = <<>> THEN <<>>
    ELSE insert_sorted(sort(SubSeq(v, 1, Len(v) - 1)), v[Len(v)])

\* HashMap::keys().cloned().collect(): the keys in some order
RECURSIVE keys_vec(_)
keys_vec(S) ==
    IF S = {} THEN <<>>
    ELSE LET x == CHOOSE x \in S : TRUE IN <<x>> \o keys_vec(S \ {x})

\* provider_names: `if !names.contains(builtin) { names.push(builtin) }`
push_builtin(names, builtin) ==
    IF builtin \in Range(names) THEN names ELSE Append(names, builtin)

\* Config::provider_names
provider_names(c) ==
    LET names == keys_vec(DOMAIN c.providers)
        n1 == push_builtin(names, str_github)
        n2 == push_builtin(n1, str_gitlab)
        n3 == push_builtin(n2, str_bitbucket)
    IN  sort(n3)

ResolvedProvider(name, provider_type, token, url) ==
    [name |-> name, provider_type |-> provider_type, token |-> token, url |-> url]

\* Option<String>::unwrap_or_else(|| provider_type.default_url())
url_or_default(url, provider_type) ==
    IF IsSome(url) THEN Unwrap(url) ELSE default_url(provider_type)

\* resolve_entry guessing a kind for an entry that declares none
resolve_entry_guessing(entry, name) ==
    LET provider_type ==
            IF IsSome(entry.provider_type) THEN entry.provider_type
            ELSE IF IsSome(from_name(name)) THEN from_name(name)
            ELSE Some("Github")
    IN  Some(ResolvedProvider(name, Unwrap(provider_type), entry.token,
                              url_or_default(entry.url, Unwrap(provider_type))))

\* Config::resolve_provider, first branch: the name is a key of the map
resolve_entry(entry, name) ==
    LET provider_type ==
            IF IsSome(entry.provider_type) THEN entry.provider_type ELSE from_name(name)
    IN  IF provider_type = None THEN None
        ELSE Some(ResolvedProvider(name, Unwrap(provider_type), entry.token,
                                   url_or_default(entry.url, Unwrap(provider_type))))

\* resolve_builtin naming the provider by its kind instead of the name asked
resolve_builtin_lowercased(name) ==
    LET provider_type == from_name(name)
    IN  IF IsSome(provider_type)
        THEN Some(ResolvedProvider(to_lowercase(name), Unwrap(provider_type), None,
                                   default_url(Unwrap(provider_type))))
        ELSE None

\* Config::resolve_provider, second branch: a built-in name without config
resolve_builtin(name) ==
    LET provider_type == from_name(name)
    IN  IF IsSome(provider_type)
        THEN Some(ResolvedProvider(name, Unwrap(provider_type), None,
                                   default_url(Unwrap(provider_type))))
        ELSE None

\* resolve_provider looking the name up in lowercase
resolve_provider_folding(c, name) ==
    IF to_lowercase(name) \in DOMAIN c.providers
    THEN resolve_entry(c.providers[to_lowercase(name)], name)
    ELSE resolve_builtin(name)

\* Config::resolve_provider
resolve_provider(c, name) ==
    IF name \in DOMAIN c.providers
    THEN resolve_entry(c.providers[name], name)
    ELSE resolve_builtin(name)

\* Config::default_providers
default_providers(c) ==
    IF IsSome(c.defaults.providers) THEN Unwrap(c.defaults.providers)
    ELSE <<str_github, str_gitlab, str_bitbucket>>

----------------------------------------------------------------------------
(* main.rs: resolve_provider_names *)

\* is_all comparing the exact string
is_all_exact(p) == p = str_all

\* p.eq_ignore_ascii_case("all")
is_all(p) == eq_ignore_ascii_case(p, str_all)

\* the HashSet built by the loop over cli_providers
RECURSIVE names_set(_, _, _)
names_set(cli_providers, c, names) ==
    IF cli_providers = <<>> THEN names
    ELSE LET p == Head(cli_providers)
         IN  names_set(Tail(cli_providers), c,
                       IF is_all(p) THEN names \cup Range(provider_names(c))
                       ELSE names \cup {p})

\* HashSet::into_iter().collect(): every order of the elements
Orders(S) ==
    {v \in [1..Cardinality(S) -> S] : \A i, j \in 1..Cardinality(S) : v[i] = v[j] => i = j}

\* resolve_provider_names: the vectors it can return
resolve_provider_names(cli_providers, c) ==
    IF cli_providers # <<>>
    THEN Orders(names_set(cli_providers, c, {}))
    ELSE {default_providers(c)}

----------------------------------------------------------------------------
(* Messages, as ASCII *)

\* "Authentication required to get username"
msg_auth_required ==
    <<65, 117, 116, 104, 101, 110, 116, 105, 99, 97, 116, 105, 111, 110, 32, 114, 101, 113, 117, 105, 114, 101, 100, 32, 116, 111, 32, 103, 101, 116, 32, 117, 115, 101, 114, 110, 97, 109, 101>>

\* "Bitbucket requires authentication to search all repositories. Set BITBUCKET_TOKEN or use --mine flag."
msg_bitbucket_auth ==
    <<66, 105, 116, 98, 117, 99, 107, 101, 116, 32, 114, 101, 113, 117, 105, 114, 101, 115, 32, 97, 117, 116, 104, 101, 110, 116, 105, 99, 97, 116, 105, 111, 110, 32, 116, 111, 32, 115, 101, 97, 114, 99, 104, 32, 97, 108, 108, 32, 114, 101, 112, 111, 115, 105, 116, 111, 114, 105, 101, 115, 46, 32, 83, 101, 116, 32, 66, 73, 84, 66, 85, 67, 75, 69, 84, 95, 84, 79, 75, 69, 78, 32, 111, 114, 32, 117, 115, 101, 32, 45, 45, 109, 105, 110, 101, 32, 102, 108, 97, 103, 46>>

\* "Failed to fetch GitHub user"
msg_github_user ==
    <<70, 97, 105, 108, 101, 100, 32, 116, 111, 32, 102, 101, 116, 99, 104, 32, 71, 105, 116, 72, 117, 98, 32, 117, 115, 101, 114>>

\* "Failed to fetch Bitbucket user"
msg_bitbucket_user ==
    <<70, 97, 105, 108, 101, 100, 32, 116, 111, 32, 102, 101, 116, 99, 104, 32, 66, 105, 116, 98, 117, 99, 107, 101, 116, 32, 117, 115, 101, 114>>

\* "Failed to search GitHub repositories"
msg_github_search ==
    <<70, 97, 105, 108, 101, 100, 32, 116, 111, 32, 115, 101, 97, 114, 99, 104, 32, 71, 105, 116, 72, 117, 98, 32, 114, 101, 112, 111, 115, 105, 116, 111, 114, 105, 101, 115>>

\* "Failed to search GitLab projects"
msg_gitlab_search ==
    <<70, 97, 105, 108, 101, 100, 32, 116, 111, 32, 115, 101, 97, 114, 99, 104, 32, 71, 105, 116, 76, 97, 98, 32, 112, 114, 111, 106, 101, 99, 116, 115>>

\* "Failed to search Bitbucket repositories"
msg_bitbucket_search ==
    <<70, 97, 105, 108, 101, 100, 32, 116, 111, 32, 115, 101, 97, 114, 99, 104, 32, 66, 105, 116, 98, 117, 99, 107, 101, 116, 32, 114, 101, 112, 111, 115, 105, 116, 111, 114, 105, 101, 115>>

\* "Failed to parse GitHub response"
msg_github_parse ==
    <<70, 97, 105, 108, 101, 100, 32, 116, 111, 32, 112, 97, 114, 115, 101, 32, 71, 105, 116, 72, 117, 98, 32, 114, 101, 115, 112, 111, 110, 115, 101>>

\* "Failed to parse GitLab response"
msg_gitlab_parse ==
    <<70, 97, 105, 108, 101, 100, 32, 116, 111, 32, 112, 97, 114, 115, 101, 32, 71, 105, 116, 76, 97, 98, 32, 114, 101, 115, 112, 111, 110, 115, 101>>

\* "Failed to parse Bitbucket response"
msg_bitbucket_parse ==
    <<70, 97, 105, 108, 101, 100, 32, 116, 111, 32, 112, 97, 114, 115, 101, 32, 66, 105, 116, 98, 117, 99, 107, 101, 116, 32, 114, 101, 115, 112, 111, 110, 115, 101>>

\* "task panicked"
msg_panicked ==
    <<116, 97, 115, 107, 32, 112, 97, 110, 105, 99, 107, 101, 100>>

\* ": "
str_colon ==
    <<58, 32>>

\* "Task error: "
str_task_error ==
    <<84, 97, 115, 107, 32, 101, 114, 114, 111, 114, 58, 32>>

----------------------------------------------------------------------------
(* The provider adapters.  A search is decided by the adapter's local      *)
(* checks and by what the network answers: each operator gives the set of  *)
(* outcomes a search can have.  An outcome records the requests sent.      *)

\* repositories one search can return
MaxRepos == 2

Repository(provider, id) == [provider |-> provider, id |-> id]

\* the Vec<Repository> an adapter builds from a response with k items
repos_of(display_name, k) == [j \in 1..k |-> Repository(display_name, j)]

SearchOk(repos, requests) ==
    [kind |-> "ok", repos |-> repos, msg |-> <<>>, requests |-> requests]

SearchErr(msg, requests) ==
    [kind |-> "err", repos |-> <<>>, msg |-> msg, requests |-> requests]

\* the task panicked: join_next yields Err(JoinError)
TaskPanic == [kind |-> "panic", repos |-> <<>>, msg |-> msg_panicked, requests |-> <<>>]

\* the search request itself: a page of 0..MaxRepos items, a request that
\* fails, or a response that does not decode
send_search(display_name, sent, request, fail_msg, parse_msg) ==
    {SearchOk(repos_of(display_name, k), Append(sent, request)) : k \in 0..MaxRepos}
    \cup {SearchErr(fail_msg, Append(sent, request)),
          SearchErr(parse_msg, Append(sent, request))}

\* GitHubProvider::search
github_search(token, display_name, mine_only) ==
    IF mine_only
    THEN IF token = None
         THEN {SearchErr(msg_auth_required, <<>>)}
         ELSE {SearchErr(msg_github_user, <<"/user">>)}
              \cup send_search(display_name, <<"/user">>, "/search/repositories user:",
                               msg_github_search, msg_github_parse)
    ELSE send_search(display_name, <<>>, "/search/repositories", msg_github_search, msg_github_parse)

\* GitLabProvider::search
gitlab_search(token, display_name, mine_only) ==
    send_search(display_name, <<>>,
                IF mine_only THEN "/api/v4/projects owned" ELSE "/api/v4/projects",
                msg_gitlab_search, msg_gitlab_parse)

\* bitbucket_search without its refusal of an unauthenticated search
bitbucket_search_unrefused(token, display_name, mine_only) ==
    IF mine_only \/ IsSome(token)
    THEN IF token = None
         THEN {SearchErr(msg_auth_required, <<>>)}
         ELSE {SearchErr(msg_bitbucket_user, <<"/user">>)}
              \cup send_search(display_name, <<"/user">>, "/repositories/<username>",
                               msg_bitbucket_search, msg_bitbucket_parse)
    ELSE send_search(display_name, <<>>, "/repositories", msg_bitbucket_search, msg_bitbucket_parse)

\* bitbucket_search resolving the user only for a mine-only search
bitbucket_search_unscoped(token, display_name, mine_only) ==
    IF ~mine_only /\ token = None
    THEN {SearchErr(msg_bitbucket_auth, <<>>)}
    ELSE IF mine_only
    THEN IF token = None
         THEN {SearchErr(msg_auth_required, <<>>)}
         ELSE {SearchErr(msg_bitbucket_user, <<"/user">>)}
              \cup send_search(display_name, <<"/user">>, "/repositories/<username>",
                               msg_bitbucket_search, msg_bitbucket_parse)
    ELSE send_search(display_name, <<>>, "/repositories", msg_bitbucket_search, msg_bitbucket_parse)

\* BitbucketProvider::search
bitbucket_search(token, display_name, mine_only) ==
    IF ~mine_only /\ token = None
    THEN {SearchErr(msg_bitbucket_auth, <<>>)}
    ELSE IF mine_only \/ IsSome(token)
    THEN IF token = None
         THEN {SearchErr(msg_auth_required, <<>>)}
         ELSE {SearchErr(msg_bitbucket_user, <<"/user">>)}
              \cup send_search(display_name, <<"/user">>, "/repositories/<username>",
                               msg_bitbucket_search, msg_bitbucket_parse)
    ELSE send_search(display_name, <<>>, "/repositories", msg_bitbucket_search, msg_bitbucket_parse)

\* the async block spawned per provider: the match on provider_type
unit_outcomes(task, mine_only) ==
    (CASE task.provider_type = "Github" ->
              github_search(task.token, task.name, mine_only)
       [] task.provider_type = "Gitlab" ->
              gitlab_search(task.token, task.name, mine_only)
       [] task.provider_type = "Bitbucket" ->
              bitbucket_search(task.token, task.name, mine_only))
    \cup {TaskPanic}

\* the unit spawned for one resolved provider, still running
new_task(provider) ==
    [name |-> provider.name, url |-> provider.url, token |-> provider.token,
     provider_type |-> provider.provider_type, result |-> None]

\* format!("{}: {}", name, e)
provider_warning(name, msg) == name \o str_colon \o msg

\* format!("Task error: {}", e)
task_warning(msg) == str_task_error \o msg

\* extend_repos with the aggregate replaced instead of extended
extend_repos_replacing(repos, r) == IF r.kind = "ok" THEN r.repos ELSE repos

\* the join loop, arm `Ok((_name, Ok(repos))) => all_repos.extend(repos)`
extend_repos(repos, r) == IF r.kind = "ok" THEN repos \o r.repos ELSE repos

\* the join loop, arms `Ok((name, Err(e)))` and `Err(e)`: errors.push(..)
push_error(errs, name, r) ==
    IF r.kind = "err" THEN Append(errs, provider_warning(name, r.msg))
    ELSE IF r.kind = "panic" THEN Append(errs, task_warning(r.msg))
    ELSE errs

\* join_set_is_empty taken as "no finished unit is waiting to be joined"
join_set_none_ready == completed = <<>>

\* JoinSet::join_next yields None: every spawned unit has been joined
join_set_is_empty == Len(joined) = Len(tasks)

----------------------------------------------------------------------------
(* main *)

DEFAULT_LIMIT == 10

\* main: args.limit.or(config.defaults.limit).unwrap_or(DEFAULT_LIMIT)
resolve_limit(a, c) ==
    IF IsSome(a.limit) THEN Unwrap(a.limit)
    ELSE IF IsSome(c.defaults.limit) THEN Unwrap(c.defaults.limit)
    ELSE DEFAULT_LIMIT

\* main: `if let Some(ref url) = args.url { resolved.url = url.clone(); }`
apply_url_override(resolved, url) ==
    IF IsSome(url) THEN [resolved EXCEPT !.url = Unwrap(url)] ELSE resolved

\* resolve_loop giving up at the first name that does not resolve
resolve_loop_aborting(names, c, url, acc) ==
    IF names = <<>> THEN acc
    ELSE IF resolve_provider(c, Head(names)) = None
    THEN [resolved |-> <<>>,
          warned |-> Append(acc.warned, <<"Warning: Unknown provider", Head(names)>>)]
    ELSE [acc EXCEPT !.resolved =
              <<apply_url_override(Unwrap(resolve_provider(c, Head(names))), url)>>]

\* main: the loop over provider_names; acc is
\* [resolved: the vector pushed to, warned: the eprintln! lines]
RECURSIVE resolve_loop(_, _, _, _)
resolve_loop(names, c, url, acc) ==
    IF names = <<>> THEN acc
    ELSE LET r == resolve_provider(c, Head(names))
         IN  resolve_loop(Tail(names), c, url,
                 IF IsSome(r)
                 THEN [acc EXCEPT !.resolved = Append(@, apply_url_override(Unwrap(r), url))]
                 ELSE [acc EXCEPT !.warned = Append(@, <<"Warning: Unknown provider", Head(names)>>)])

\* main: one line of the --list-providers listing per name that resolves
RECURSIVE listing(_, _)
listing(names, c) ==
    IF names = <<>> THEN <<>>
    ELSE LET r == resolve_provider(c, Head(names))
         IN  (IF IsSome(r)
              THEN <<<<"provider", [name |-> Head(names),
                                    kind |-> Unwrap(r).provider_type,
                                    url |-> Unwrap(r).url,
                                    authenticated |-> IsSome(Unwrap(r).token)]>>>>
              ELSE <<>>)
             \o listing(Tail(names), c)

\* output::print_results
print_results(repos, as_json) ==
    IF repos = <<>>
    THEN IF as_json THEN <<<<"json", [repositories |-> <<>>, total |-> 0]>>>>
         ELSE <<<<"text", "No repositories found.">>>>
    ELSE IF as_json THEN <<<<"json", [repositories |-> repos, total |-> Len(repos)]>>>>
         ELSE <<<<"found", Len(repos)>>, <<"table", repos>>>>

\* main: the `Warning: {}` lines, printed unless --json
warning_lines(errs, as_json) ==
    IF errs # <<>> /\ ~as_json
    THEN [i \in 1..Len(errs) |-> <<"Warning:", errs[i]>>]
    ELSE <<>>

\* Config::load, `Self::load_from_file().unwrap_or_default()`
LoadFromFile ==
    /\ pc = "load_file"
    /\ config' = load_base(file)
    /\ pc' = "apply_env"
    /\ UNCHANGED <<file, env, args, main_provider_names, resolved_providers, stderr,
                   stdout, exit_code, tasks, completed, joined, limit, all_repos, errors>>

\* Config::load, `config.apply_env_overrides()`
ApplyEnvOverrides ==
    /\ pc = "apply_env"
    /\ config' = apply_env_overrides(config, env)
    /\ pc' = "migrate"
    /\ UNCHANGED <<file, env, args, main_provider_names, resolved_providers, stderr,
                   stdout, exit_code, tasks, completed, joined, limit, all_repos, errors>>

\* Config::load, `config.migrate_legacy_providers()`, then Ok(config)
MigrateLegacyProviders ==
    /\ pc = "migrate"
    /\ config' = migrate_legacy_providers(config)
    /\ pc' = "loaded"
    /\ UNCHANGED <<file, env, args, main_provider_names, resolved_providers, stderr,
                   stdout, exit_code, tasks, completed, joined, limit, all_repos, errors>>

\* main: --list-providers
ListProviders ==
    /\ pc = "loaded"
    /\ args.list_providers
    /\ stdout' = stdout \o <<<<"text", "Configured providers:">>>>
                        \o listing(provider_names(config), config)
    /\ exit_code' = Some(0)
    /\ pc' = "exit"
    /\ UNCHANGED <<file, env, args, config, main_provider_names, resolved_providers,
                   stderr, tasks, completed, joined, limit, all_repos, errors>>

\* main: --owner together with --mine
UsageConflict ==
    /\ pc = "loaded"
    /\ ~args.list_providers
    /\ args.mine /\ IsSome(args.owner)
    /\ stderr' = Append(stderr, <<"Error:", "--owner and --mine cannot be used together">>)
    /\ exit_code' = Some(1)
    /\ pc' = "exit"
    /\ UNCHANGED <<file, env, args, config, main_provider_names, resolved_providers,
                   stdout, tasks, completed, joined, limit, all_repos, errors>>

\* main: no query given
MissingQuery ==
    /\ pc = "loaded"
    /\ ~args.list_providers
    /\ ~(args.mine /\ IsSome(args.owner))
    /\ args.query = None
    /\ limit' = resolve_limit(args, config)
    /\ stderr' = stderr \o <<<<"Error:", "Search query is required">>,
                             <<"Usage:", "repo_search <QUERY>">>>>
    /\ exit_code' = Some(1)
    /\ pc' = "exit"
    /\ UNCHANGED <<file, env, args, config, main_provider_names, resolved_providers,
                   stdout, tasks, completed, joined, all_repos, errors>>

\* main: resolve the limit, then `resolve_provider_names(&args.provider, &config)`
ResolveProviderNames ==
    /\ pc = "loaded"
    /\ ~args.list_providers
    /\ ~(args.mine /\ IsSome(args.owner))
    /\ IsSome(args.query)
    /\ limit' = resolve_limit(args, config)
    /\ \E v \in resolve_provider_names(args.provider, config) :
           main_provider_names' = v
    /\ pc' = "resolve"
    /\ UNCHANGED <<file, env, args, config, resolved_providers, stderr, stdout,
                   exit_code, tasks, completed, joined, all_repos, errors>>

\* main: the loop resolving each name
ResolveProviders ==
    /\ pc = "resolve"
    /\ LET r == resolve_loop(main_provider_names, config, args.url,
                             [resolved |-> <<>>, warned |-> <<>>])
       IN  /\ resolved_providers' = r.resolved
           /\ stderr' = stderr \o r.warned
    /\ pc' = "resolved"
    /\ UNCHANGED <<file, env, args, config, main_provider_names, stdout, exit_code,
                   tasks, completed, joined, limit, all_repos, errors>>

\* main: nothing resolved
NoValidProviders ==
    /\ pc = "resolved"
    /\ resolved_providers = <<>>
    /\ stderr' = Append(stderr, <<"Error:", "No valid providers to search">>)
    /\ exit_code' = Some(1)
    /\ pc' = "exit"
    /\ UNCHANGED <<file, env, args, config, main_provider_names, resolved_providers,
                   stdout, tasks, completed, joined, limit, all_repos, errors>>

\* main: the call of execute_searches; `let mut join_set = JoinSet::new()`
CallExecuteSearches ==
    /\ pc = "resolved"
    /\ resolved_providers # <<>>
    /\ tasks' = <<>>
    /\ pc' = "spawn"
    /\ UNCHANGED <<file, env, args, config, main_provider_names, resolved_providers,
                   stderr, stdout, exit_code, completed, joined, limit, all_repos, errors>>

----------------------------------------------------------------------------
(* execute_searches *)

\* one iteration of `for provider in providers`: join_set.spawn(..)
Spawn ==
    /\ pc = "spawn"
    /\ Len(tasks) < Len(resolved_providers)
    /\ tasks' = Append(tasks, new_task(resolved_providers[Len(tasks) + 1]))
    /\ UNCHANGED <<file, env, args, pc, config, main_provider_names, resolved_providers,
                   stderr, stdout, exit_code, completed, joined, limit, all_repos, errors>>

\* the loop is over: `let mut all_repos = Vec::new(); let mut errors = Vec::new();`
StartJoin ==
    /\ pc = "spawn"
    /\ Len(tasks) = Len(resolved_providers)
    /\ all_repos' = <<>>
    /\ errors' = <<>>
    /\ pc' = "join"
    /\ UNCHANGED <<file, env, args, config, main_provider_names, resolved_providers,
                   stderr, stdout, exit_code, tasks, completed, joined, limit>>

\* a spawned unit runs to its end, on its own thread of the runtime
UnitFinish(i) ==
    /\ i \in DOMAIN tasks
    /\ tasks[i].result = None
    /\ \E r \in unit_outcomes(tasks[i], args.mine) :
           tasks' = [tasks EXCEPT ![i].result = Some(r)]
    /\ completed' = Append(completed, i)
    /\ UNCHANGED <<file, env, args, pc, config, main_provider_names, resolved_providers,
                   stderr, stdout, exit_code, joined, limit, all_repos, errors>>

\* `while let Some(result) = join_set.join_next().await { match result {..} }`
JoinNext ==
    /\ pc = "join"
    /\ completed # <<>>
    /\ LET i == Head(completed)
           r == Unwrap(tasks[i].result)
       IN  /\ all_repos' = extend_repos(all_repos, r)
           /\ errors' = push_error(errors, tasks[i].name, r)
           /\ joined' = Append(joined, i)
    /\ completed' = Tail(completed)
    /\ UNCHANGED <<file, env, args, pc, config, main_provider_names, resolved_providers,
                   stderr, stdout, exit_code, tasks, limit>>

\* join_next yields None: `(all_repos, errors)` is returned to main
JoinDone ==
    /\ pc = "join"
    /\ join_set_is_empty
    /\ pc' = "returned"
    /\ UNCHANGED <<file, env, args, config, main_provider_names, resolved_providers,
                   stderr, stdout, exit_code, tasks, completed, joined, limit, all_repos,
                   errors>>

\* main: the warnings, then output::print_results, then Ok(())
Present ==
    /\ pc = "returned"
    /\ stderr' = stderr \o warning_lines(errors, args.json)
                        \o (IF errors # <<>> /\ ~args.json /\ all_repos # <<>>
                            THEN <<<<"", "">>>> ELSE <<>>)
    /\ stdout' = stdout \o print_results(all_repos, args.json)
    /\ exit_code' = Some(0)
    /\ pc' = "exit"
    /\ UNCHANGED <<file, env, args, config, main_provider_names, resolved_providers,
                   tasks, completed, joined, limit, all_repos, errors>>

----------------------------------------------------------------------------
(* Specifications *)

DefaultArgs ==
    [query |-> Some("q"), provider |-> <<>>, url |-> None, mine |-> FALSE,
     owner |-> None, limit |-> None, json |-> FALSE, list_providers |-> FALSE]

\* main has parsed its arguments and nothing else has happened
AtStart ==
    /\ pc = "load_file"
    /\ config = Config_default
    /\ main_provider_names = <<>>
    /\ resolved_providers = <<>>
    /\ stderr = <<>>
    /\ stdout = <<>>
    /\ exit_code = None
    /\ tasks = <<>>
    /\ completed = <<>>
    /\ joined = <<>>
    /\ limit = 0
    /\ all_repos = <<>>
    /\ errors = <<>>

Selectors == {str_all, str_ALL, str_github, str_GitHub, str_my_custom, str_unknown}

ArgsSet ==
    [query : {None, Some("q")},
     provider : UNION {[1..k -> Selectors] : k \in 0..MaxInputs},
     url : {None, Some(""), Some("https://cli.example")},
     mine : BOOLEAN,
     owner : {None, Some("octo")},
     limit : {None, Some(5)},
     json : BOOLEAN,
     list_providers : BOOLEAN]

BoolSize(b) == IF b THEN 1 ELSE 0

\* how many -p selectors and flags the command line gives; the query counts
\* when it is missing
ArgsSize(a) ==
    Len(a.provider) + OptionSize(a.url) + BoolSize(a.mine) + OptionSize(a.owner)
    + OptionSize(a.limit) + BoolSize(a.json) + BoolSize(a.list_providers)
    + BoolSize(a.query = None)

\* main, from cli::parse() on, for every command line, file and environment
\* of at most MaxInputs settings in total
InitMain ==
    /\ \E a \in {x \in ArgsSet : ArgsSize(x) <= MaxInputs} :
           /\ args = a
           /\ IsLoadInput(file, env, FileNames, MaxInputs - ArgsSize(a))
    /\ AtStart

\* main up to the call of execute_searches, or to its exit before that
NextMain ==
    \/ LoadFromFile
    \/ ApplyEnvOverrides
    \/ MigrateLegacyProviders
    \/ ListProviders
    \/ UsageConflict
    \/ MissingQuery
    \/ ResolveProviderNames
    \/ ResolveProviders
    \/ NoValidProviders
    \/ CallExecuteSearches

SpecMain == InitMain /\ [][NextMain]_vars

\* main for every command line, with no configuration file and no variable set
InitCli ==
    /\ args \in ArgsSet
    /\ file = [state |-> "absent", content |-> Config_default]
    /\ env = NoEnv
    /\ AtStart

SpecCli == InitCli /\ [][NextMain]_vars

\* resolved providers handed to execute_searches
MaxUnits == 2

ExecProviders ==
    {ResolvedProvider(nk[1], nk[2], t, default_url(nk[2])) :
        nk \in {<<str_github, "Github">>, <<str_gitlab, "Gitlab">>,
                <<str_bitbucket, "Bitbucket">>},
        t \in {None, Some("tok")}}

\* execute_searches called with any list of at most MaxUnits providers
InitExec ==
    /\ resolved_providers \in UNION {[1..n -> ExecProviders] : n \in 0..MaxUnits}
    /\ \E m \in BOOLEAN, j \in BOOLEAN :
           args = [DefaultArgs EXCEPT !.mine = m, !.json = j]
    /\ file = [state |-> "absent", content |-> Config_default]
    /\ env = NoEnv
    /\ pc = "spawn"
    /\ config = Config_default
    /\ main_provider_names = [i \in 1..Len(resolved_providers) |-> resolved_providers[i].name]
    /\ stderr = <<>>
    /\ stdout = <<>>
    /\ exit_code = None
    /\ tasks = <<>>
    /\ completed = <<>>
    /\ joined = <<>>
    /\ limit = DEFAULT_LIMIT
    /\ all_repos = <<>>
    /\ errors = <<>>

\* execute_searches and what main does with its result
NextExec ==
    \/ Spawn
    \/ StartJoin
    \/ \E i \in 1..MaxUnits : UnitFinish(i)
    \/ JoinNext
    \/ JoinDone
    \/ Present

SpecExec == InitExec /\ [][NextExec]_vars

\* the runtime keeps polling main's task: every step of execute_searches that
\* can be taken is taken.  A unit waits for the network and may never finish.
FairSpecExec ==
    /\ SpecExec
    /\ WF_vars(Spawn)
    /\ WF_vars(StartJoin)
    /\ WF_vars(JoinNext)
    /\ WF_vars(JoinDone)
    /\ WF_vars(Present)

\* the whole program
Next == NextMain \/ NextExec

Spec == InitMain /\ [][Next]_vars

----------------------------------------------------------------------------
(* Properties of execute_searches *)

Count(seq, x) == Cardinality({i \in DOMAIN seq : seq[i] = x})

\* the outcome of unit i, once it has finished
Outcome(i) == Unwrap(tasks[i].result)

Succeeded(i) == IsSome(tasks[i].result) /\ Outcome(i).kind = "ok"

Failed(i) == IsSome(tasks[i].result) /\ Outcome(i).kind # "ok"

\* how often the units that succeeded returned repository r
Produced(r) ==
    Cardinality({u \in (DOMAIN tasks) \X (1..(MaxRepos + 1)) :
                    /\ Succeeded(u[1])
                    /\ u[2] <= Len(Outcome(u[1]).repos)
                    /\ Outcome(u[1]).repos[u[2]] = r})

ReturnedRepos ==
    Range(all_repos)
    \cup UNION {Range(Outcome(i).repos) : i \in {j \in DOMAIN tasks : Succeeded(j)}}

\* C1: when execute_searches returns, one unit was run per provider, the
\* repository list holds exactly the repositories of the units that succeeded
\* (each as often as it was returned), and the warning list holds one string
\* per failed unit, the provider's name in it when the adapter failed.
C1_ExactAggregation ==
    pc = "returned" =>
        /\ Len(tasks) = Len(resolved_providers)
        /\ \A i \in DOMAIN tasks : IsSome(tasks[i].result)
        /\ \A r \in ReturnedRepos : Count(all_repos, r) = Produced(r)
        /\ Len(errors) = Cardinality({i \in DOMAIN tasks : Failed(i)})
        /\ \A i \in DOMAIN tasks :
               Outcome(i).kind = "err" =>
                   \E j \in DOMAIN errors : Contains(errors[j], resolved_providers[i].name)

\* P1 succeeded with 2 repositories, P2 failed in its adapter and finished first
C1_Witness ==
    /\ pc = "returned"
    /\ Len(tasks) = 2
    /\ joined = <<2, 1>>
    /\ Outcome(1).kind = "ok" /\ Len(Outcome(1).repos) = 2
    /\ Outcome(2).kind = "err"
    /\ Len(all_repos) = 2 /\ Len(errors) = 1

\* execute_searches has returned to main
Returned == pc \in {"returned", "exit"}

\* every provider has its unit and every unit has finished
AllUnitsFinished ==
    /\ pc \in {"spawn", "join"}
    /\ Len(tasks) = Len(resolved_providers)
    /\ \A i \in DOMAIN tasks : IsSome(tasks[i].result)

\* every unit was joined, each exactly once
AllJoinedOnce ==
    /\ Len(joined) = Len(resolved_providers)
    /\ Range(joined) = 1..Len(resolved_providers)
    /\ \A i \in DOMAIN tasks : IsSome(tasks[i].result)

\* C2: execute_searches never returns while a dispatched unit is still
\* running or unjoined, whatever the units' outcomes, and once all units have
\* finished it does return.
C2_WaitsForAll ==
    /\ [](Returned => AllJoinedOnce)
    /\ (AllUnitsFinished ~> Returned)

\* the first unit joined had failed, and the second one was still joined
C2_Witness ==
    /\ pc = "returned"
    /\ joined = <<1, 2>>
    /\ Outcome(1).kind = "err"
    /\ Outcome(2).kind = "ok"

----------------------------------------------------------------------------
(* Properties of Config::load, of the queries and of main *)

\* Config::load has returned
Loaded == pc \notin {"load_file", "apply_env", "migrate"}

\* the three well-known kinds: mapping key, kind, default URL, environment
\* variables and legacy section
KindTable ==
    {[key |-> str_github, kind |-> "Github", url |-> "https://api.github.com",
      token_var |-> "GITHUB_TOKEN", url_var |-> "GITHUB_URL", legacy |-> "github"],
     [key |-> str_gitlab, kind |-> "Gitlab", url |-> "https://gitlab.com",
      token_var |-> "GITLAB_TOKEN", url_var |-> "GITLAB_URL", legacy |-> "gitlab"],
     [key |-> str_bitbucket, kind |-> "Bitbucket", url |-> "https://api.bitbucket.org/2.0",
      token_var |-> "BITBUCKET_TOKEN", url_var |-> "BITBUCKET_URL", legacy |-> "bitbucket"]}

WellKnown == {k.key : k \in KindTable}

\* n is the lowercase word k up to the case of its letters
SameIgnoringCase(n, k) ==
    /\ Len(n) = Len(k)
    /\ \A i \in 1..Len(k) : n[i] = k[i] \/ n[i] = k[i] - 32

IsWellKnown(n) == \E k \in WellKnown : SameIgnoringCase(n, k)

\* a strictly before b in lexicographic order
LexLess(a, b) ==
    \E i \in 1..(Len(b)) :
        /\ i <= Len(a) + 1
        /\ \A j \in 1..(i - 1) : a[j] = b[j]
        /\ (i = Len(a) + 1 \/ a[i] < b[i])

\* C3: with a configuration file that exists but cannot be read or parsed,
\* the run ends with a failure and no provider is listed, resolved or
\* dispatched.
C3_MalformedFileAborts ==
    file.state \in {"unreadable", "malformed"} =>
        /\ resolved_providers = <<>>
        /\ tasks = <<>>
        /\ pc \notin {"resolve", "resolved", "spawn"}
        /\ (pc = "exit" => exit_code = Some(1) /\ stdout = <<>>)

\* the field the file gives for a kind: its providers.<k> entry, else its
\* legacy section
FileGave(k, field) ==
    IF file.state = "ok" /\ k.key \in DOMAIN file.content.providers
    THEN file.content.providers[k.key][field]
    ELSE IF file.state = "ok" /\ IsSome(file.content[k.legacy])
    THEN Unwrap(file.content[k.legacy])[field]
    ELSE None

\* C4: after Config::load a variable that is set gives its field of the
\* kind's entry, and when only one of the two variables of a kind is set the
\* other field is the one the file gave (unified entry or legacy section).
C4_EnvOverridesOneField ==
    Loaded =>
        \A k \in KindTable :
            /\ IsSome(env[k.token_var]) \/ IsSome(env[k.url_var]) =>
                   k.key \in DOMAIN config.providers
            /\ IsSome(env[k.token_var]) => config.providers[k.key].token = env[k.token_var]
            /\ IsSome(env[k.url_var]) => config.providers[k.key].url = env[k.url_var]
            /\ IsSome(env[k.token_var]) /\ env[k.url_var] = None =>
                   config.providers[k.key].url = FileGave(k, "url")
            /\ IsSome(env[k.url_var]) /\ env[k.token_var] = None =>
                   config.providers[k.key].token = FileGave(k, "token")

\* C5: the migration step leaves every entry that is already in the mapping
\* as it is, turns a legacy section whose kind has no entry into that entry,
\* empties the legacy sections, and is idempotent.
C5_FirstWriterWins ==
    [][pc = "migrate" =>
          /\ \A n \in DOMAIN config.providers :
                 /\ n \in DOMAIN config'.providers
                 /\ config'.providers[n] = config.providers[n]
          /\ \A k \in KindTable :
                 /\ (k.key \notin DOMAIN config.providers /\ IsSome(config[k.legacy])) =>
                        /\ k.key \in DOMAIN config'.providers
                        /\ config'.providers[k.key] =
                               [provider_type |-> Some(k.kind),
                                token |-> Unwrap(config[k.legacy]).token,
                                url |-> Unwrap(config[k.legacy]).url]
                 /\ (k.key \notin DOMAIN config.providers /\ config[k.legacy] = None) =>
                        k.key \notin DOMAIN config'.providers
                 /\ config'[k.legacy] = None
          /\ DOMAIN config'.providers \subseteq (DOMAIN config.providers) \cup WellKnown
          /\ migrate_legacy_providers(config') = config'
      ]_vars

\* the file has providers.github and a legacy [github] section with another
\* token; after the load the entry is the unified one
C5_Witness ==
    /\ pc = "loaded"
    /\ file.state = "ok"
    /\ str_github \in DOMAIN file.content.providers
    /\ file.content.providers[str_github].token = None
    /\ IsSome(file.content.github)
    /\ Unwrap(file.content.github).token = Some("tok-legacy")
    /\ config.providers[str_github] = file.content.providers[str_github]
    /\ config.github = None

\* "GITLAB"
str_GITLAB == <<71, 73, 84, 76, 65, 66>>

\* "Bitbucket"
str_Bitbucket == <<66, 105, 116, 98, 117, 99, 107, 101, 116>>

\* names looked up
QueryNames == FileNames \cup Selectors \cup {str_GITLAB, str_Bitbucket}

\* n does not resolve: no kind in its name, and no entry or an entry
\* without a type
Unresolvable(n) ==
    /\ ~IsWellKnown(n)
    /\ (n \notin DOMAIN config.providers \/ config.providers[n].provider_type = None)

\* C6: resolve_provider yields None exactly for the names that match no
\* well-known kind and have no entry or an entry without a type; main skips
\* exactly those names with a warning and resolves the others.  The
\* configuration is fixed once Config::load has returned, so the function is
\* examined in the state where it returns.
C6_NotFoundExactly ==
    Loaded =>
        /\ pc = "loaded" =>
               \A n \in QueryNames : (resolve_provider(config, n) = None) <=> Unresolvable(n)
        /\ pc \in {"resolved", "spawn", "exit"} =>
               \A n \in Range(main_provider_names) :
                   /\ (<<"Warning: Unknown provider", n>> \in Range(stderr)) <=> Unresolvable(n)
                   /\ (\E i \in DOMAIN resolved_providers : resolved_providers[i].name = n)
                          <=> ~Unresolvable(n)

\* providers.my-custom has a URL and a token but no type, and -p my-custom
\* is skipped
C6_Witness ==
    /\ pc = "resolved"
    /\ str_my_custom \in DOMAIN config.providers
    /\ config.providers[str_my_custom].provider_type = None
    /\ IsSome(config.providers[str_my_custom].url)
    /\ IsSome(config.providers[str_my_custom].token)
    /\ main_provider_names = <<str_my_custom>>
    /\ resolved_providers = <<>>
    /\ stderr = <<<<"Warning: Unknown provider", str_my_custom>>>>

\* C7: a well-known kind name, in any letter case, that is no key of the
\* mapping resolves to the name asked, that kind, its default URL, no token:
\* as the value of resolve_provider on the configuration Config::load
\* returned, and as the provider main hands on when no --url is given.
C7_BuiltinDefaults ==
    /\ pc = "loaded" =>
           \A n \in QueryNames : \A k \in KindTable :
               (SameIgnoringCase(n, k.key) /\ n \notin DOMAIN config.providers) =>
                   resolve_provider(config, n) =
                       Some([name |-> n, provider_type |-> k.kind, token |-> None,
                             url |-> k.url])
    /\ (pc \in {"resolved", "spawn"} /\ args.url = None) =>
           \A i \in DOMAIN resolved_providers : \A k \in KindTable :
               LET n == resolved_providers[i].name
               IN  (SameIgnoringCase(n, k.key) /\ n \notin DOMAIN config.providers) =>
                       resolved_providers[i] =
                           [name |-> n, provider_type |-> k.kind, token |-> None,
                            url |-> k.url]

\* -p GitHub with no such key: main resolved it to GitHub's defaults
C7_Witness ==
    /\ pc = "resolved"
    /\ args.provider = <<str_GitHub>>
    /\ args.url = None
    /\ str_GitHub \notin DOMAIN config.providers
    /\ resolved_providers =
           <<[name |-> str_GitHub, provider_type |-> "Github", token |-> None,
              url |-> "https://api.github.com"]>>

\* C8: every provider handed to execute_searches has a non-empty URL.
C8_UrlNeverEmpty ==
    pc = "spawn" => \A i \in DOMAIN resolved_providers : resolved_providers[i].url # ""

\* the names of the --list-providers listing, in the order printed
ListedNames == [i \in 1..(Len(stdout) - 1) |-> stdout[i + 1][2].name]

\* C9: provider_names() on the configuration Config::load returned holds the
\* three well-known names and every key of the mapping, each once, in
\* ascending lexicographic order; so does the listing main prints from it.
C9_ProviderNames ==
    /\ pc = "loaded" =>
           LET ns == provider_names(config)
           IN  /\ WellKnown \subseteq Range(ns)
               /\ DOMAIN config.providers \subseteq Range(ns)
               /\ \A i, j \in DOMAIN ns : i < j => LexLess(ns[i], ns[j])
    /\ (pc = "exit" /\ args.list_providers) =>
           /\ WellKnown \subseteq Range(ListedNames)
           /\ \A i, j \in DOMAIN ListedNames :
                  i < j => LexLess(ListedNames[i], ListedNames[j])

\* a key "GitHub" beside the built-in names: listed first, capitals sort
\* before lowercase letters
C9_Witness ==
    /\ pc = "exit"
    /\ args.list_providers
    /\ DOMAIN config.providers = {str_GitHub}
    /\ provider_names(config) = <<str_GitHub, str_bitbucket, str_github, str_gitlab>>
    /\ ListedNames = <<str_GitHub, str_bitbucket, str_github, str_gitlab>>

IsAllSelector(p) == SameIgnoringCase(p, str_all)

\* C10: given -p selectors, the names to resolve hold no name twice; when
\* "all" (any case) is among the selectors and the others are names of
\* provider_names(), they are exactly the names of provider_names().
C10_AllSelector ==
    (pc \in {"resolve", "resolved", "spawn"} /\ args.provider # <<>>) =>
        /\ \A i, j \in DOMAIN main_provider_names :
               main_provider_names[i] = main_provider_names[j] => i = j
        /\ ((\E i \in DOMAIN args.provider : IsAllSelector(args.provider[i]))
            /\ (\A i \in DOMAIN args.provider :
                    \/ IsAllSelector(args.provider[i])
                    \/ args.provider[i] \in Range(provider_names(config)))) =>
               Range(main_provider_names) = Range(provider_names(config))

\* -p ALL -p github: the three built-in names, github once
C10_Witness ==
    /\ pc = "resolve"
    /\ args.provider = <<str_ALL, str_github>>
    /\ Len(main_provider_names) = 3
    /\ Range(main_provider_names) = {str_github, str_gitlab, str_bitbucket}

----------------------------------------------------------------------------
(* Properties of the warnings and of the adapters *)

\* C11: when execute_searches returns, every unit has run to its end whatever
\* its siblings did, and every unit that failed, in its adapter or as a task,
\* has its warning "<provider name>: <error message>" in the warning list.
C11_LabelledWarnings ==
    pc = "returned" =>
        /\ \A i \in DOMAIN resolved_providers :
               i \in DOMAIN tasks /\ IsSome(tasks[i].result)
        /\ \A i \in DOMAIN tasks :
               Failed(i) =>
                   \E j \in DOMAIN errors :
                       errors[j] = provider_warning(resolved_providers[i].name, Outcome(i).msg)

\* C12: when main has presented the result of a search, every failure of a
\* unit is on stderr as a warning, in table and in JSON mode alike, the
\* result set is on stdout and the run ends successfully.
C12_FailuresSurfaced ==
    (pc = "exit" /\ Len(joined) = Len(resolved_providers) /\ resolved_providers # <<>>) =>
        /\ \A j \in DOMAIN errors : <<"Warning:", errors[j]>> \in Range(stderr)
        /\ stdout = print_results(all_repos, args.json)
        /\ exit_code = Some(0)

\* the requests unit i sent, in order
Requests(i) == Outcome(i).requests

\* unit i has finished other than by a panic of its task
Ran(i) == IsSome(tasks[i].result) /\ Outcome(i).kind # "panic"

\* C13: with --mine, an adapter without a token fails with "Authentication
\* required" and sends nothing; with a token its first request resolves the
\* authenticated user and the search request, if sent, follows it.
C13_MineNeedsIdentity ==
    \A i \in DOMAIN tasks :
        (Ran(i) /\ args.mine) =>
            /\ tasks[i].token = None =>
                   /\ Outcome(i).kind = "err"
                   /\ Outcome(i).msg = msg_auth_required
                   /\ Requests(i) = <<>>
            /\ IsSome(tasks[i].token) =>
                   /\ Requests(i) # <<>>
                   /\ Requests(i)[1] = "/user"

\* C17: without a token and without --mine, the Bitbucket adapter refuses
\* the search and sends nothing, while the GitHub and GitLab adapters send
\* their search request.
C17_BitbucketRefusesAnonymous ==
    \A i \in DOMAIN tasks :
        (Ran(i) /\ ~args.mine /\ tasks[i].token = None) =>
            /\ tasks[i].provider_type = "Bitbucket" =>
                   /\ Outcome(i).kind = "err"
                   /\ Outcome(i).msg = msg_bitbucket_auth
                   /\ Requests(i) = <<>>
            /\ tasks[i].provider_type = "Github" =>
                   Requests(i) = <<"/search/repositories">>
            /\ tasks[i].provider_type = "Gitlab" =>
                   Requests(i) = <<"/api/v4/projects">>

\* bitbucket and github without tokens: the first refused, the second found
\* a repository
C17_Witness ==
    /\ pc = "returned"
    /\ ~args.mine
    /\ Len(tasks) = 2
    /\ tasks[1].provider_type = "Bitbucket" /\ tasks[1].token = None
    /\ tasks[2].provider_type = "Github" /\ tasks[2].token = None
    /\ Outcome(1).msg = msg_bitbucket_auth
    /\ Outcome(2).kind = "ok" /\ Len(Outcome(2).repos) = 1
    /\ Len(errors) = 1 /\ Len(all_repos) = 1

----------------------------------------------------------------------------
(* Properties of main: precedence, resolution failures, usage errors *)

\* the URL the layers give the provider named k.key: the --url flag, else
\* the URL variable of k, else the file's URL for k, else the built-in
\* default of the provider's kind
LayeredUrl(k, provider_type) ==
    IF IsSome(args.url) THEN Unwrap(args.url)
    ELSE IF IsSome(env[k.url_var]) THEN Unwrap(env[k.url_var])
    ELSE IF IsSome(FileGave(k, "url")) THEN Unwrap(FileGave(k, "url"))
    ELSE default_url(provider_type)

\* the limit the layers give: --limit, else defaults.limit of the file, else 10
LayeredLimit ==
    IF IsSome(args.limit) THEN Unwrap(args.limit)
    ELSE IF file.state = "ok" /\ IsSome(file.content.defaults.limit)
    THEN Unwrap(file.content.defaults.limit)
    ELSE 10

\* C14: the providers main hands on under a well-known name have the URL of
\* the first layer that gives one (CLI, environment, file, default), and the
\* limit is the CLI's, else the file's, else 10.
C14_LayeredPrecedence ==
    pc \in {"resolved", "spawn"} =>
        /\ limit = LayeredLimit
        /\ \A i \in DOMAIN resolved_providers : \A k \in KindTable :
               resolved_providers[i].name = k.key =>
                   resolved_providers[i].url = LayeredUrl(k, resolved_providers[i].provider_type)

\* the names main asked for that resolve, in the order asked
ResolvingNames ==
    SelectSeq(main_provider_names, LAMBDA n : IsSome(resolve_provider(config, n)))

NoValidProvidersReported ==
    <<"Error:", "No valid providers to search">> \in Range(stderr)

\* C15: main hands on one provider per name that resolves, in the order
\* asked, and warns once per name that does not; it goes on to the search
\* when at least one name resolved, and ends with "No valid providers"
\* exactly when none did, with no unit dispatched.
C15_PerNameResolution ==
    /\ pc \in {"resolved", "spawn"} =>
           /\ [i \in DOMAIN resolved_providers |-> resolved_providers[i].name] = ResolvingNames
           /\ Len(stderr) = Len(main_provider_names) - Len(ResolvingNames)
    /\ pc = "spawn" => ResolvingNames # <<>>
    /\ NoValidProvidersReported =>
           /\ ResolvingNames = <<>>
           /\ resolved_providers = <<>>
           /\ tasks = <<>>
           /\ pc = "exit" /\ exit_code = Some(1)
    /\ (pc = "exit" /\ ~NoValidProvidersReported) => main_provider_names = <<>>

\* -p unknown -p github: unknown is skipped with a warning, github goes on
\* to the search
C15_Witness ==
    /\ pc = "spawn"
    /\ Range(main_provider_names) = {str_unknown, str_github}
    /\ Len(resolved_providers) = 1
    /\ resolved_providers[1].name = str_github
    /\ stderr = <<<<"Warning: Unknown provider", str_unknown>>>>

UsageConflictGiven == args.mine /\ IsSome(args.owner)

\* C16: with --mine and --owner together, whatever the other flags, nothing
\* is listed, no provider is resolved, no unit is dispatched, and the run
\* ends with the usage error and a failure.
C16_UsageConflictFirst ==
    UsageConflictGiven =>
        /\ stdout = <<>>
        /\ main_provider_names = <<>> /\ resolved_providers = <<>> /\ tasks = <<>>
        /\ pc \notin {"resolve", "resolved", "spawn"}
        /\ pc = "exit" =>
               /\ exit_code = Some(1)
               /\ stderr = <<<<"Error:", "--owner and --mine cannot be used together">>>>

\* n is a well-known name in another letter case than the lowercase key of k
OtherCase(n, k) == SameIgnoringCase(n, k.key) /\ n # k.key

ResolvedNames == {resolved_providers[i].name : i \in DOMAIN resolved_providers}

\* C19: a name that is a well-known kind in another letter case and is no
\* key of the mapping resolves to the kind's default URL and no token,
\* whatever the lowercase entry holds; such a name that is a key is listed
\* by provider_names() beside the lowercase name, and under the selector
\* "all" both are handed on to the search.
C19_ExactCaseLookup ==
    /\ pc = "loaded" =>
           \A n \in QueryNames \cup DOMAIN config.providers : \A k \in KindTable :
               OtherCase(n, k) =>
                   /\ n \notin DOMAIN config.providers =>
                          resolve_provider(config, n)
                              = Some(ResolvedProvider(n, k.kind, None, k.url))
                   /\ n \in DOMAIN config.providers =>
                          /\ Count(provider_names(config), n) = 1
                          /\ Count(provider_names(config), k.key) = 1
    /\ (pc \in {"resolved", "spawn"}
        /\ \E i \in DOMAIN args.provider : IsAllSelector(args.provider[i])) =>
           \A n \in DOMAIN config.providers : \A k \in KindTable :
               OtherCase(n, k) => {n, k.key} \subseteq ResolvedNames

\* providers.GitHub in the file and -p all: GitHub and github are both
\* handed on, both of kind Github
C19_Witness ==
    /\ pc = "spawn"
    /\ args.provider = <<str_all>>
    /\ DOMAIN config.providers = {str_GitHub}
    /\ Len(resolved_providers) = 4
    /\ \E i, j \in DOMAIN resolved_providers :
           /\ resolved_providers[i].name = str_GitHub
           /\ resolved_providers[j].name = str_github
           /\ resolved_providers[i].provider_type = "Github"
           /\ resolved_providers[j].provider_type = "Github"

====
